---- MODULE Spec2Model ----
(***************************************************************************)
(* A model of movie_analytics.py: the field normaliser (snake), the        *)
(* loader/joiner and type coercer (load_data), the aggregations (totals,   *)
(* top_films, runtime_extremes, not_overseas) and the report command of    *)
(* main with build_report.                                                 *)
(*                                                                         *)
(* Conventions.  A text is a sequence of one-character strings.  A value   *)
(* that pandas may hold as missing (NaN / NaT / None) is an option: None   *)
(* is <<>> and Some(v) is <<v>>.  A table is a record [cols, rows]: the    *)
(* set of column labels and the sequence of rows, each row a function      *)
(* from the labels to cells.                                               *)
(***************************************************************************)
EXTENDS Integers, Sequences, FiniteSets, TLC

VARIABLES
    pc,            \* position of the running operation
    label,         \* snake: the raw column label
    ident,         \* snake: the returned identifier
    fact,          \* load_data: df1 after column normalisation
    director_dim,  \* load_data: df2
    genre_dim,     \* load_data: df3
    language_dim,  \* load_data: df4
    data,          \* the unified record set (load_data's result)
    indexer,       \* the row order picked by the last sort_values
    result,        \* the table returned by the last aggregation
    schema,        \* report: the columns of the unified record set
    files,         \* report: <name>.md in the output directory -> run that wrote it (0: absent)
    report_md,     \* report: REPORT.md, [by |-> run, sections |-> <<name, run>>...] (by = 0: absent)
    run,           \* report: number of the current invocation
    stmt,          \* report: the statement of the report command to run next (0: none)
    ran            \* report: the aggregations the current invocation has called, in order

vars == <<pc, label, ident, fact, director_dim, genre_dim, language_dim, data,
          indexer, result, schema, files, report_md, run, stmt, ran>>

snakeVars == <<label, ident>>
loadVars == <<fact, director_dim, genre_dim, language_dim>>
aggVars == <<indexer, result>>
reportVars == <<schema, files, report_md, run, stmt, ran>>

----------------------------------------------------------------------------
(* Generic helpers *)

None == <<>>
Some(v) == <<v>>
IsNone(o) == o = <<>>
Val(o) == o[1]

\* All sequences over S of length at most n.
SeqsUpTo(S, n) == UNION {[1..k -> S] : k \in 0..n}

RECURSIVE Concat(_)
\* The concatenation of a sequence of sequences.
Concat(ss) == IF ss = <<>> THEN <<>> ELSE Head(ss) \o Concat(Tail(ss))

EmptyTable == [cols |-> {}, rows |-> <<>>]

\* The state before any operation of one of the other components.
IdleSnake == label = <<>> /\ ident = None
IdleLoad ==
    /\ fact = EmptyTable /\ director_dim = EmptyTable
    /\ genre_dim = EmptyTable /\ language_dim = EmptyTable
IdleData == data = EmptyTable
IdleAgg == indexer = <<>> /\ result = <<>>
IdleReport ==
    /\ schema = {} /\ files = <<>> /\ report_md = [by |-> 0, sections |-> <<>>]
    /\ run = 0 /\ stmt = 0 /\ ran = <<>>


----------------------------------------------------------------------------
(* Bounds *)

MaxLabelLen == 4
MaxFactRows == 2
MaxDimRows == 2
MaxRows == 3
MaxN == 2
MaxRuntimeRows == 6
MaxRuns == 2

----------------------------------------------------------------------------
(* snake (movie_analytics.py 38-49) *)

\* The characters raw labels are drawn from: a letter in each case, the two
\* whitespace characters space and tab, and the characters snake names.
LabelChars == {"A", "a", " ", "\t", "/", "(", ")", "-", "+", "_"}

Whitespace == {" ", "\t"}

Labels == SeqsUpTo(LabelChars, MaxLabelLen)

RECURSIVE LStrip(_)
\* str.lstrip(): leading whitespace removed.
LStrip(s) == IF s # <<>> /\ Head(s) \in Whitespace THEN LStrip(Tail(s)) ELSE s

RECURSIVE RStrip(_)
\* str.rstrip(): trailing whitespace removed.
RStrip(s) ==
    IF s # <<>> /\ s[Len(s)] \in Whitespace
    THEN RStrip(SubSeq(s, 1, Len(s) - 1))
    ELSE s

\* str.strip(): surrounding whitespace removed.
Strip(s) == RStrip(LStrip(s))

\* str.lower() on one character.
LowerChar(c) ==
    CASE c = "A" -> "a"
      [] c = "F" -> "f"
      [] c = "N" -> "n"
      [] OTHER -> c

\* str.upper() on one character.
UpperChar(c) ==
    CASE c = "a" -> "A"
      [] c = "f" -> "F"
      [] c = "n" -> "N"
      [] OTHER -> c

\* str.lower().
Lower(s) == [i \in 1..Len(s) |-> LowerChar(s[i])]

\* str.replace(c, rep) for a one-character c: every occurrence is replaced.
ReplaceChar(s, c, rep) ==
    Concat([i \in 1..Len(s) |-> IF s[i] = c THEN rep ELSE <<s[i]>>])

RECURSIVE ReplacePairs(_)
\* str.replace("__", "_"): one scan from the left over non-overlapping pairs.
ReplacePairs(s) ==
    IF Len(s) < 2 THEN s
    ELSE IF s[1] = "_" /\ s[2] = "_"
         THEN <<"_">> \o ReplacePairs(SubSeq(s, 3, Len(s)))
         ELSE <<s[1]>> \o ReplacePairs(Tail(s))

\* A variant of the last replace that scans until no pair is left.
RECURSIVE CollapseAll(_)
CollapseAll(s) == IF ReplacePairs(s) = s THEN s ELSE CollapseAll(ReplacePairs(s))

\* snake's last call, .replace("__", "_").
CollapsePass(s) == ReplacePairs(s)

\* snake(s): the chain of calls in the order of the source.
snake(s) ==
    LET s1 == Strip(s)
        s2 == Lower(s1)
        s3 == ReplaceChar(s2, "/", <<"_">>)
        s4 == ReplaceChar(s3, " ", <<"_">>)
        s5 == ReplaceChar(s4, "(", <<"_">>)
        s6 == ReplaceChar(s5, ")", <<"_">>)
        s7 == ReplaceChar(s6, "-", <<"_">>)
        s8 == ReplaceChar(s7, "+", <<"p", "l", "u", "s">>)
    IN  CollapsePass(s8)

InitSnake ==
    /\ pc = "snake"
    /\ label \in Labels
    /\ ident = None
    /\ IdleLoad /\ IdleData /\ IdleAgg /\ IdleReport

\* One call of snake on the label.
Snake ==
    /\ pc = "snake"
    /\ ident' = Some(snake(label))
    /\ pc' = "done"
    /\ UNCHANGED <<label, loadVars, data, aggVars, reportVars>>

NextSnake == Snake

SpecSnake == InitSnake /\ [][NextSnake]_vars

----------------------------------------------------------------------------
(* Claim C3 *)

\* The character-by-character reading of the contract: lower case, the given
\* set of characters to an underscore, + to the text plus.
MapChar(c, toUnderscore) ==
    IF c \in toUnderscore THEN <<"_">>
    ELSE IF c = "+" THEN <<"p", "l", "u", "s">>
    ELSE <<LowerChar(c)>>

MapChars(s, toUnderscore) == Concat([i \in 1..Len(s) |-> MapChar(s[i], toUnderscore)])

RECURSIVE RunLen(_)
\* The length of the run of underscores s starts with.
RunLen(s) == IF s # <<>> /\ Head(s) = "_" THEN 1 + RunLen(Tail(s)) ELSE 0

RECURSIVE HalveRuns(_)
\* Every maximal run of k underscores cut to (k + 1) \div 2 underscores: what
\* one pass over non-overlapping pairs leaves of it.
HalveRuns(s) ==
    IF s = <<>> THEN <<>>
    ELSE IF Head(s) # "_" THEN <<Head(s)>> \o HalveRuns(Tail(s))
    ELSE LET k == RunLen(s)
         IN  [i \in 1..((k + 1) \div 2) |-> "_"] \o HalveRuns(SubSeq(s, k + 1, Len(s)))

\* C3 as stated: the label lowercased with every whitespace character and each
\* of / ( ) - replaced by an underscore, + by plus, then one pass over the
\* pairs of underscores; nothing is removed.
C3_AsStated ==
    pc = "done" /\ ~IsNone(ident) =>
        Val(ident) = HalveRuns(MapChars(label, Whitespace \cup {"/", "(", ")", "-"}))

\* C3 amended: snake first removes the whitespace around the label, then
\* lowercases it, replaces the space character and each of / ( ) - by an
\* underscore (a tab inside the label passes through), + by plus, and makes one
\* pass over the pairs of underscores.
C3_Snake ==
    pc = "done" /\ ~IsNone(ident) =>
        Val(ident) = HalveRuns(MapChars(Strip(label), {" ", "/", "(", ")", "-"}))

\* C3 witness: a label with a leading space, which is removed, whose other
\* characters become a run of three underscores, of which two are left.
C3_Witness ==
    /\ pc = "done" /\ ~IsNone(ident)
    /\ label = <<" ", "-", "(", "/">>
    /\ Val(ident) = <<"_", "_">>

----------------------------------------------------------------------------
(* load_data (movie_analytics.py 52-96) *)

NUM_COLS == <<"budget_in_crores",
              "first_day_collection_worldwide_in_crores",
              "worldwide_collection_in_crores",
              "overseas_collection_in_crores",
              "india_gross_collection_in_crores",
              "imdb_rating",
              "runtime_mins">>

NumCols == {NUM_COLS[i] : i \in 1..Len(NUM_COLS)}

\* The rows of left that an inner join would keep: none for an unmatched key.
UnmatchedNone(l, rightOnly) == <<>>

\* The one row a left join makes of a left row that no right row matches: the
\* right table's columns are missing.
Unmatched(l, rightOnly) == <<l @@ [c \in rightOnly |-> None]>>

\* pd.merge(left, right, left_on=..., right_on=..., how="left"): the left rows
\* in their order, each once per right row with an equal key, in the right
\* table's order, and once with missing right columns when there is none.
Merge(left, right, left_on, right_on) ==
    LET rightOnly == right.cols \ left.cols
        Matches(l) == SelectSeq(right.rows, LAMBDA r : r[right_on] = l[left_on])
        Joined(l) ==
            IF Matches(l) = <<>>
            THEN Unmatched(l, rightOnly)
            ELSE [k \in 1..Len(Matches(l)) |-> l @@ Matches(l)[k]]
    IN  [cols |-> left.cols \cup right.cols,
         rows |-> Concat([i \in 1..Len(left.rows) |-> Joined(left.rows[i])])]

\* The columns the three merges look up: a missing one is a KeyError.
MergeKeysPresent(f, d, g, l) ==
    /\ "directorid" \in f.cols /\ "director_id" \in d.cols
    /\ "genreid" \in f.cols /\ "genreid" \in g.cols
    /\ "languageid" \in f.cols /\ "languageid" \in l.cols

Digits == {"0", "1", "2", "3", "4", "5", "6", "7", "8", "9"}

DigitVal(c) ==
    CASE c = "0" -> 0 [] c = "1" -> 1 [] c = "2" -> 2 [] c = "3" -> 3
      [] c = "4" -> 4 [] c = "5" -> 5 [] c = "6" -> 6 [] c = "7" -> 7
      [] c = "8" -> 8 [] c = "9" -> 9

RECURSIVE DecVal(_)
\* The number a text of digits writes.
DecVal(t) ==
    IF t = <<>> THEN 0 ELSE 10 * DecVal(SubSeq(t, 1, Len(t) - 1)) + DigitVal(t[Len(t)])

\* A variant of the coercion that leaves a text it cannot parse in the cell.
CoerceFailedKeep(text) == Some(text)

\* errors="coerce": what a text that does not parse becomes.
CoerceFailed(text) == None

\* pd.to_numeric(cell, errors="coerce").
ToNumeric(cell) ==
    IF IsNone(cell) THEN None
    ELSE IF Val(cell) # <<>> /\ \A i \in 1..Len(Val(cell)) : Val(cell)[i] \in Digits
         THEN Some(DecVal(Val(cell)))
         ELSE CoerceFailed(Val(cell))

IsLeap(y) == (y % 4 = 0 /\ y % 100 # 0) \/ y % 400 = 0

DaysInMonth(y, m) ==
    IF m = 2 THEN (IF IsLeap(y) THEN 29 ELSE 28)
    ELSE IF m \in {4, 6, 9, 11} THEN 30 ELSE 31

\* pd.to_datetime(cell, errors="coerce") on a text year-month-day, held as the
\* three numbers it writes: the date when the calendar has it, NaT otherwise.
ToDatetime(cell) ==
    IF IsNone(cell) THEN None
    ELSE LET t == Val(cell)
         IN  IF Len(t) = 3 /\ t[2] \in 1..12 /\ t[3] \in 1..DaysInMonth(t[1], t[2])
             THEN Some(t)
             ELSE None

\* .dt.year: missing for NaT.
DtYear(date) == IF IsNone(date) THEN None ELSE Some(Val(date)[1])

DayNames == <<"Sunday", "Monday", "Tuesday", "Wednesday", "Thursday", "Friday", "Saturday">>

MonthOffsets == <<0, 3, 2, 5, 0, 3, 5, 1, 4, 6, 2, 4>>

\* The day of the week of a Gregorian date, 0 for Sunday.
DayOfWeek(y, m, d) ==
    LET yy == IF m < 3 THEN y - 1 ELSE y
    IN  (yy + (yy \div 4) - (yy \div 100) + (yy \div 400) + MonthOffsets[m] + d) % 7

\* .dt.day_name(): missing for NaT.
DtDayName(date) ==
    IF IsNone(date) THEN None
    ELSE Some(DayNames[DayOfWeek(Val(date)[1], Val(date)[2], Val(date)[3]) + 1])

\* .astype(str): a text stays; a missing cell becomes the text nan, or stays
\* missing where the string type keeps missing values (keepNa).
AsTypeStr(cell, keepNa) ==
    IF IsNone(cell) THEN (IF keepNa THEN None ELSE Some(<<"n", "a", "n">>)) ELSE cell

\* str.capitalize(): the first character upper case, the rest lower case.
Capitalize(t) ==
    [i \in 1..Len(t) |-> IF i = 1 THEN UpperChar(t[i]) ELSE LowerChar(t[i])]

\* .str.capitalize() / .str.strip() / .str.replace(":", "") skip missing cells.
StrCapitalize(cell) == IF IsNone(cell) THEN None ELSE Some(Capitalize(Val(cell)))
StrStrip(cell) == IF IsNone(cell) THEN None ELSE Some(Strip(Val(cell)))
StrDropColons(cell) == IF IsNone(cell) THEN None ELSE Some(ReplaceChar(Val(cell), ":", <<>>))

\* Lines 82-84: every numeric column that is there is coerced.
RECURSIVE CoerceNumCols(_, _)
CoerceNumCols(t, k) ==
    IF k > Len(NUM_COLS) THEN t
    ELSE LET c == NUM_COLS[k]
             coerced == [t EXCEPT !.rows = [i \in 1..Len(t.rows) |->
                                              [t.rows[i] EXCEPT ![c] = ToNumeric(@)]]]
         IN  CoerceNumCols(IF c \in t.cols THEN coerced ELSE t, k + 1)

\* Lines 85-88.
DeriveDates(t) ==
    IF "release_date" \in t.cols
    THEN [cols |-> t.cols \cup {"year", "week_days"},
          rows |-> [i \in 1..Len(t.rows) |->
                      LET date == ToDatetime(t.rows[i]["release_date"])
                      IN  ("release_date" :> date) @@ ("year" :> DtYear(date))
                          @@ ("week_days" :> DtDayName(date)) @@ t.rows[i]]]
    ELSE t

\* Lines 91-92.
CleanVerdict(t, keepNa) ==
    IF "verdict" \in t.cols
    THEN [t EXCEPT !.rows = [i \in 1..Len(t.rows) |->
            [t.rows[i] EXCEPT !["verdict"] = StrStrip(StrDropColons(AsTypeStr(@, keepNa)))]]]
    ELSE t

\* Lines 93-94.
CleanOtt(t, keepNa) ==
    IF "ott_platform" \in t.cols
    THEN [t EXCEPT !.rows = [i \in 1..Len(t.rows) |->
            [t.rows[i] EXCEPT !["ott_platform"] = StrStrip(StrCapitalize(AsTypeStr(@, keepNa)))]]]
    ELSE t

\* load_data after the four reads and the column normalisation: the unified
\* record set.
load_data(f, d, g, l, keepNa) ==
    LET df12 == Merge(f, d, "directorid", "director_id")
        df123 == Merge(df12, g, "genreid", "genreid")
        merged == Merge(df123, l, "languageid", "languageid")
    IN  CleanOtt(CleanVerdict(DeriveDates(CoerceNumCols(merged, 1)), keepNa), keepNa)

----------------------------------------------------------------------------
(* Inputs of load_data *)

FactKeys == {1, 2}

BaseCols == {"title", "directorid", "genreid", "languageid"}

TitleOf(i) == Some(<<"film", i>>)

\* A dimension table: its key column and its descriptive column, which names
\* the row.
DimTable(keyCol, nameCol, keys) ==
    [cols |-> {keyCol, nameCol},
     rows |-> [i \in 1..Len(keys) |-> (keyCol :> Some(keys[i])) @@ (nameCol :> Some(<<nameCol, i>>))]]

\* Key lists of the genre and language tables: one key, both keys, one key twice.
SmallDimKeyLists == {<<1>>, <<2, 1>>, <<1, 1>>}

\* Fact tables of the join inputs: any keys, no optional column.
JoinFacts ==
    {[cols |-> BaseCols,
      rows |-> [i \in 1..Len(ks) |->
                  [title |-> TitleOf(i), directorid |-> Some(ks[i][1]),
                   genreid |-> Some(ks[i][2]), languageid |-> Some(ks[i][3])]]] :
        ks \in SeqsUpTo(FactKeys \X FactKeys \X FactKeys, MaxFactRows)}

InitJoinInputs ==
    /\ fact \in JoinFacts
    /\ director_dim \in {DimTable("director_id", "director", ks) :
                            ks \in SeqsUpTo(FactKeys, MaxDimRows)}
    /\ genre_dim \in {DimTable("genreid", "genre", ks) : ks \in SmallDimKeyLists}
    /\ language_dim \in {DimTable("languageid", "language", ks) : ks \in SmallDimKeyLists}

\* Cells as read_csv leaves them: missing, or the text of the field.
NumCells == {None, Some(<<"1", "2">>), Some(<<"7">>), Some(<<"1", "x">>)}
DateCells == {None, Some(<<2020, 3, 16>>), Some(<<2024, 2, 29>>), Some(<<2021, 2, 30>>)}
OttCells == {None, Some(<<"n", "F">>), Some(<<" ", "n">>), Some(<<"N", "a", " ">>)}
VerdictCells == {None, Some(<<":", "F", " ">>)}

ExtraCells(c) ==
    CASE c = "release_date" -> DateCells
      [] c = "ott_platform" -> OttCells
      [] c = "verdict" -> VerdictCells

BaseRow == [title |-> TitleOf(1), directorid |-> Some(1), genreid |-> Some(1), languageid |-> Some(1)]

\* Fact tables of the coercion inputs: one numeric column, or runtime_mins and
\* one of the optional columns; every key matches the one row of its dimension.
CoerceFacts ==
    UNION {{[cols |-> BaseCols \cup {c}, rows |-> rs] :
                rs \in SeqsUpTo({BaseRow @@ (c :> x) : x \in NumCells}, MaxFactRows)} :
            c \in NumCols}
    \cup
    UNION {{[cols |-> BaseCols \cup {"runtime_mins", e}, rows |-> rs] :
                rs \in SeqsUpTo({BaseRow @@ ("runtime_mins" :> x) @@ (e :> y) :
                                    x \in NumCells, y \in ExtraCells(e)}, MaxFactRows)} :
            e \in {"release_date", "ott_platform", "verdict"}}

\* A fact table without the languageid column: the third merge has no key.
KeylessFacts ==
    {[cols |-> BaseCols \ {"languageid"},
      rows |-> <<[title |-> TitleOf(1), directorid |-> Some(1), genreid |-> Some(1)]>>]}

InitCoerceInputs ==
    /\ fact \in CoerceFacts \cup KeylessFacts
    /\ director_dim = DimTable("director_id", "director", <<1>>)
    /\ genre_dim = DimTable("genreid", "genre", <<1>>)
    /\ language_dim = DimTable("languageid", "language", <<1>>)

InitLoad ==
    /\ pc = "load"
    /\ InitJoinInputs \/ InitCoerceInputs
    /\ data = EmptyTable
    /\ IdleSnake /\ IdleAgg /\ IdleReport

\* One call of load_data; a merge on a column that is not there raises.
LoadData ==
    /\ pc = "load"
    /\ \E keepNa \in BOOLEAN :
          IF MergeKeysPresent(fact, director_dim, genre_dim, language_dim)
          THEN /\ data' = load_data(fact, director_dim, genre_dim, language_dim, keepNa)
               /\ pc' = "loaded"
          ELSE /\ data' = data
               /\ pc' = "failed"
    /\ UNCHANGED <<snakeVars, loadVars, aggVars, reportVars>>

NextLoad == LoadData

SpecLoad == InitLoad /\ [][NextLoad]_vars

----------------------------------------------------------------------------
(* Claims C1, C4, C5 *)

UniqueKeys(t, keyCol) ==
    \A i, j \in 1..Len(t.rows) : t.rows[i][keyCol] = t.rows[j][keyCol] => i = j

DimsUnique ==
    /\ UniqueKeys(director_dim, "director_id")
    /\ UniqueKeys(genre_dim, "genreid")
    /\ UniqueKeys(language_dim, "languageid")

\* The descriptive cell the claim expects for a fact key: that of the dimension
\* row with the key, missing when there is none.
Lookup(t, keyCol, nameCol, key) ==
    IF \E k \in 1..Len(t.rows) : t.rows[k][keyCol] = key
    THEN t.rows[CHOOSE k \in 1..Len(t.rows) : t.rows[k][keyCol] = key][nameCol]
    ELSE None

\* C1: when every dimension table has unique keys, the unified record set has
\* exactly one record per fact row, in fact order, each with the fact row's own
\* cells, and its director / genre / language is that of the matching dimension
\* row, or missing when no dimension row matches.
C1_LeftJoinsKeepFactRows ==
    pc = "loaded" /\ fact.cols = BaseCols /\ DimsUnique =>
        /\ Len(data.rows) = Len(fact.rows)
        /\ \A i \in 1..Len(fact.rows) :
              /\ \A c \in fact.cols : data.rows[i][c] = fact.rows[i][c]
              /\ data.rows[i]["director"] =
                    Lookup(director_dim, "director_id", "director", fact.rows[i]["directorid"])
              /\ data.rows[i]["genre"] =
                    Lookup(genre_dim, "genreid", "genre", fact.rows[i]["genreid"])
              /\ data.rows[i]["language"] =
                    Lookup(language_dim, "languageid", "language", fact.rows[i]["languageid"])

\* C1 witness: two fact rows loaded against unique dimension keys, the first
\* matched by a director row and the second by none.
C1_Witness ==
    /\ pc = "loaded" /\ fact.cols = BaseCols /\ DimsUnique
    /\ Len(fact.rows) = 2 /\ Len(data.rows) = 2
    /\ ~IsNone(data.rows[1]["director"])
    /\ IsNone(data.rows[2]["director"])
    /\ data.rows[2]["title"] = TitleOf(2)

\* Whether a source cell is a text that writes a number.
NumericText(cell) ==
    /\ ~IsNone(cell)
    /\ Val(cell) # <<>>
    /\ \A k \in 1..Len(Val(cell)) : Val(cell)[k] \in Digits

\* Whether a source cell is a text that writes a date of the calendar.
DateText(cell) ==
    /\ ~IsNone(cell)
    /\ Val(cell)[2] \in 1..12
    /\ Val(cell)[3] \in 1..DaysInMonth(Val(cell)[1], Val(cell)[2])

\* C4: loading ends without failure whatever the cells hold; a cell of a numeric
\* field is missing exactly when its text does not parse as a number, a
\* release_date is missing exactly when its text is no date, and year and
\* week_days are there exactly when release_date is.
C4_CoercionNeverFails ==
    (MergeKeysPresent(fact, director_dim, genre_dim, language_dim) => pc # "failed")
    /\ (pc = "loaded" /\ Len(data.rows) = Len(fact.rows) =>
          \A i \in 1..Len(data.rows) :
              /\ \A c \in NumCols \cap data.cols :
                    /\ IsNone(data.rows[i][c]) <=> ~NumericText(fact.rows[i][c])
                    /\ ~IsNone(data.rows[i][c]) => Val(data.rows[i][c]) \in Nat
              /\ "release_date" \in data.cols =>
                    /\ IsNone(data.rows[i]["release_date"]) <=> ~DateText(fact.rows[i]["release_date"])
                    /\ {"year", "week_days"} \subseteq data.cols
                    /\ ~IsNone(data.rows[i]["year"]) <=> ~IsNone(data.rows[i]["release_date"])
                    /\ ~IsNone(data.rows[i]["week_days"]) <=> ~IsNone(data.rows[i]["release_date"]))

\* C4 witness: a loaded table whose first row holds a number text that does not
\* parse and a second row one that does, both now numeric or missing.
C4_Witness ==
    /\ pc = "loaded" /\ Len(data.rows) = 2
    /\ "budget_in_crores" \in data.cols
    /\ fact.rows[1]["budget_in_crores"] = Some(<<"1", "x">>)
    /\ IsNone(data.rows[1]["budget_in_crores"])
    /\ data.rows[2]["budget_in_crores"] = Some(12)

\* C4, the case of the dates: one date that is not
\* of the calendar and the Monday of the specification's example.
C4_DateCase ==
    /\ pc = "loaded" /\ Len(data.rows) = 2 /\ "release_date" \in data.cols
    /\ fact.rows[1]["release_date"] = Some(<<2021, 2, 30>>)
    /\ IsNone(data.rows[1]["year"]) /\ IsNone(data.rows[1]["week_days"])
    /\ fact.rows[2]["release_date"] = Some(<<2020, 3, 16>>)
    /\ data.rows[2]["year"] = Some(2020) /\ data.rows[2]["week_days"] = Some("Monday")

\* C5: when the ott_platform column exists, every loaded record's ott_platform
\* is missing when the source cell is, and otherwise the source text with the
\* surrounding whitespace removed, its first character upper case and the rest
\* lower case.
C5_OttTrimmedCapitalized ==
    pc = "loaded" /\ "ott_platform" \in data.cols /\ Len(data.rows) = Len(fact.rows) =>
        \A i \in 1..Len(data.rows) :
            data.rows[i]["ott_platform"] =
                IF IsNone(fact.rows[i]["ott_platform"]) THEN None
                ELSE Some(Capitalize(Strip(Val(fact.rows[i]["ott_platform"]))))

----------------------------------------------------------------------------
(* Aggregations (movie_analytics.py 103-125, 173-176, 184-185) *)

Budget == "budget_in_crores"
Worldwide == "worldwide_collection_in_crores"
FirstDay == "first_day_collection_worldwide_in_crores"
Overseas == "overseas_collection_in_crores"
India == "india_gross_collection_in_crores"
Runtime == "runtime_mins"

AggCols == {"title", Budget, Worldwide, FirstDay, Overseas, India, Runtime}

\* df[[c1, c2]] of one row.
Project(row, cs) == [c \in cs |-> row[c]]

\* .head(n) for n >= 0.
HeadN(s, n) == SubSeq(s, 1, IF n < Len(s) THEN n ELSE Len(s))

\* A variant of count that counts every cell, missing or not.
CountAll(t, c) == Len(t.rows)

\* Series.count(): the cells that are not missing.
Count(t, c) == Cardinality({i \in 1..Len(t.rows) : ~IsNone(t.rows[i][c])})

RECURSIVE SumFrom(_, _, _)
\* Series.sum(): missing cells are skipped, the sum of none is 0.
SumFrom(t, c, k) ==
    IF k > Len(t.rows) THEN 0
    ELSE (IF IsNone(t.rows[k][c]) THEN 0 ELSE Val(t.rows[k][c])) + SumFrom(t, c, k + 1)

Sum(t, c) == SumFrom(t, c, 1)

\* totals(data): one row.
totals(t) ==
    <<[total_films |-> Count(t, "title"),
       total_budget_crores |-> Sum(t, Budget),
       total_worldwide_crores |-> Sum(t, Worldwide),
       total_firstday_crores |-> Sum(t, FirstDay),
       total_overseas_crores |-> Sum(t, Overseas),
       total_india_crores |-> Sum(t, India)]>>

TotalsCols == {"title", Budget, Worldwide, FirstDay, Overseas, India}

\* A variant of the order that sorts against the requested direction.
PrecedesReversed(a, b, ascending) == IF ascending THEN a > b ELSE a < b

\* Whether the value a must come before the value b in the requested direction.
Precedes(a, b, ascending) == IF ascending THEN a < b ELSE a > b

RECURSIVE Orders(_, _, _, _)
\* The orders a sort may leave the rows S in: at every place one of the rows
\* that no other row of S must precede.  sort_values is called without kind, so
\* numpy's quicksort sorts the values: it is not stable (it moves equal keys
\* past each other once the array is longer than its insertion-sort cutoff, and
\* at any length in its vectorised builds), so rows with equal values may come
\* out in any order, here at any length.
Orders(t, c, ascending, S) ==
    IF S = {} THEN {<<>>}
    ELSE UNION {{<<i>> \o rest : rest \in Orders(t, c, ascending, S \ {i})} :
                  i \in {i \in S : \A j \in S :
                            ~Precedes(Val(t.rows[j][c]), Val(t.rows[i][c]), ascending)}}

\* The rows with a missing value, in source order.
RECURSIVE NaRows(_, _, _)
NaRows(t, c, k) ==
    IF k > Len(t.rows) THEN <<>>
    ELSE (IF IsNone(t.rows[k][c]) THEN <<k>> ELSE <<>>) \o NaRows(t, c, k + 1)

\* A variant of the placement of missing values that puts them first.
PlaceNaFirst(sorted, na) == na \o sorted

\* na_position="last", the default: the missing values follow the others.
PlaceNa(sorted, na) == sorted \o na

\* sort_values(c, ascending=...): the indexers it may produce.
sort_values(t, c, ascending) ==
    {PlaceNa(o, NaRows(t, c, 1)) :
        o \in Orders(t, c, ascending, {i \in 1..Len(t.rows) : ~IsNone(t.rows[i][c])})}

\* top_films' mapping of metric names to columns (lines 116-121).
MetricCol(metric) ==
    CASE metric = "worldwide" -> Some(Worldwide)
      [] metric = "india" -> Some(India)
      [] metric = "overseas" -> Some(Overseas)
      [] metric = "firstday" -> Some(FirstDay)
      [] OTHER -> None

\* The metric names a caller may pass: the four of the mapping and one more.
Metrics == {"worldwide", "india", "overseas", "firstday", "budget"}

\* Whether top_films(metric) passes its check of line 123 and finds its columns.
TopFilmsOk(cols, metric) ==
    /\ ~IsNone(MetricCol(metric))
    /\ Val(MetricCol(metric)) \in cols
    /\ "title" \in cols

\* A variant of the filter without fillna: a missing value is not equal to 0.
IsZeroStrict(cell) == ~IsNone(cell) /\ Val(cell) = 0

\* .fillna(0) == 0 on one cell.
IsZeroFilled(cell) == (IF IsNone(cell) THEN 0 ELSE Val(cell)) = 0

RECURSIVE SelectIdx(_, _, _)
\* The boolean mask of not_overseas as the indices it keeps, in source order.
SelectIdx(t, c, k) ==
    IF k > Len(t.rows) THEN <<>>
    ELSE (IF IsZeroFilled(t.rows[k][c]) THEN <<k>> ELSE <<>>) \o SelectIdx(t, c, k + 1)

\* The rows of t at the places of an indexer, cut to the columns cs.
Take(t, idx, cs) == [k \in 1..Len(idx) |-> Project(t.rows[idx[k]], cs)]

RuntimeTop == 5

----------------------------------------------------------------------------
(* Inputs of the aggregations *)

AggTitles == {None, Some("A")}
FewVals == {None, Some(1)}
Vals == {None, Some(0), Some(1)}

\* A unified record with x in the budget, first-day and India columns and y in
\* the worldwide, overseas and runtime columns.
AggRow(t, x, y) ==
    ("title" :> t) @@ (Budget :> x) @@ (FirstDay :> x) @@ (India :> x)
    @@ (Worldwide :> y) @@ (Overseas :> y) @@ (Runtime :> y)

AggTables ==
    {[cols |-> AggCols, rows |-> rs] :
        rs \in SeqsUpTo({AggRow(t, x, y) : t \in AggTitles, x \in FewVals, y \in Vals}, MaxRows)}

InitAgg ==
    /\ pc = "ready"
    /\ data \in AggTables
    /\ indexer = <<>> /\ result = <<>>
    /\ IdleSnake /\ IdleLoad /\ IdleReport

\* One call of totals(data).
Totals ==
    /\ pc = "ready"
    /\ IF TotalsCols \subseteq data.cols
       THEN /\ result' = [op |-> "totals", rows |-> totals(data)]
            /\ pc' = "totals"
       ELSE /\ result' = result
            /\ pc' = "failed"
    /\ UNCHANGED <<indexer, data, snakeVars, loadVars, reportVars>>

\* One call of top_films(data, metric, n).
TopFilms ==
    /\ pc = "ready"
    /\ \E metric \in Metrics, n \in 0..MaxN :
          IF TopFilmsOk(data.cols, metric)
          THEN \E order \in sort_values(data, Val(MetricCol(metric)), FALSE) :
                  /\ indexer' = HeadN(order, n)
                  /\ result' = [op |-> "top_films", metric |-> metric, n |-> n,
                                rows |-> Take(data, HeadN(order, n),
                                              {"title", Val(MetricCol(metric))})]
                  /\ pc' = "top_films"
          ELSE /\ UNCHANGED <<indexer, result>>
               /\ pc' = "failed"
    /\ UNCHANGED <<data, snakeVars, loadVars, reportVars>>

\* One call of not_overseas(data).
NotOverseas ==
    /\ pc = "ready"
    /\ IF {"title", Overseas} \subseteq data.cols
       THEN /\ indexer' = SelectIdx(data, Overseas, 1)
            /\ result' = [op |-> "not_overseas",
                          rows |-> Take(data, SelectIdx(data, Overseas, 1), {"title"})]
            /\ pc' = "not_overseas"
       ELSE /\ UNCHANGED <<indexer, result>>
            /\ pc' = "failed"
    /\ UNCHANGED <<data, snakeVars, loadVars, reportVars>>

NextAgg == Totals \/ TopFilms \/ NotOverseas

SpecAgg == InitAgg /\ [][NextAgg]_vars

----------------------------------------------------------------------------
(* Claims C2, C7, C8 *)

\* The values of a result column, top to bottom.
ColumnOf(rows, c) == [k \in 1..Len(rows) |-> rows[k][c]]

\* Non-increasing with every missing value after all the others.
NonIncreasingNullsLast(v) ==
    \A a, b \in 1..Len(v) :
        a < b => /\ IsNone(v[a]) => IsNone(v[b])
                 /\ ~IsNone(v[a]) /\ ~IsNone(v[b]) => Val(v[a]) >= Val(v[b])

\* Non-decreasing with every missing value after all the others.
NonDecreasingNullsLast(v) ==
    \A a, b \in 1..Len(v) :
        a < b => /\ IsNone(v[a]) => IsNone(v[b])
                 /\ ~IsNone(v[a]) /\ ~IsNone(v[b]) => Val(v[a]) <= Val(v[b])

\* Non-decreasing with every missing value before all the others.
NonDecreasingNullsFirst(v) ==
    \A a, b \in 1..Len(v) :
        a < b => /\ IsNone(v[b]) => IsNone(v[a])
                 /\ ~IsNone(v[a]) /\ ~IsNone(v[b]) => Val(v[a]) <= Val(v[b])

\* idx picks distinct rows of the table and rows shows their columns cs.
ShowsRows(rows, idx, t, cs) ==
    /\ Len(rows) = Len(idx)
    /\ \A a, b \in 1..Len(idx) : idx[a] = idx[b] => a = b
    /\ \A k \in 1..Len(idx) :
          /\ idx[k] \in 1..Len(t.rows)
          /\ DOMAIN rows[k] = cs
          /\ \A c \in cs : rows[k][c] = t.rows[idx[k]][c]

\* Rows of equal value (both missing, or the same number) keep their source order.
TiesInSourceOrder(idx, t, c) ==
    \A a, b \in 1..Len(idx) :
        a < b /\ t.rows[idx[a]][c] = t.rows[idx[b]][c] => idx[a] < idx[b]

\* No row left out would have to stand before a row that is shown.
NothingBetterLeftOut(idx, t, c, better(_, _)) ==
    \A i \in 1..Len(t.rows) :
        (\A k \in 1..Len(idx) : idx[k] # i) =>
            \A k \in 1..Len(idx) :
                LET out == t.rows[i][c]
                    in == t.rows[idx[k]][c]
                IN  /\ IsNone(in) => IsNone(out)
                    /\ ~IsNone(in) /\ ~IsNone(out) => ~better(Val(out), Val(in))

MinOf(a, b) == IF a < b THEN a ELSE b

\* C2 as stated: top_films(metric, n) returns at most n rows of (title, metric
\* value), sorted non-increasing, missing values after all others, and rows of
\* equal metric value in their source order.
C2_AsStated ==
    pc = "top_films" =>
        LET c == Val(MetricCol(result.metric))
        IN  /\ Len(result.rows) <= result.n
            /\ ShowsRows(result.rows, indexer, data, {"title", c})
            /\ NonIncreasingNullsLast(ColumnOf(result.rows, c))
            /\ TiesInSourceOrder(indexer, data, c)

\* C2 amended: for each of the four metrics and every n >= 0, top_films returns
\* the (title, metric value) of min(n, number of records) distinct records,
\* sorted non-increasing by the metric with every missing value after all
\* others, and no record left out has a larger value than one returned; records
\* of equal metric value come in no particular order.
C2_TopFilmsSorted ==
    pc = "top_films" =>
        LET c == Val(MetricCol(result.metric))
        IN  /\ result.metric \in {"worldwide", "india", "overseas", "firstday"}
            /\ Len(result.rows) = MinOf(result.n, Len(data.rows))
            /\ ShowsRows(result.rows, indexer, data, {"title", c})
            /\ NonIncreasingNullsLast(ColumnOf(result.rows, c))
            /\ NothingBetterLeftOut(indexer, data, c, LAMBDA x, y : x > y)

\* C2 witness: the top 2 of three records by worldwide collection, the record
\* without a value left out and the two of equal value in reverse source order.
C2_Witness ==
    /\ pc = "top_films" /\ result.metric = "worldwide" /\ result.n = 2
    /\ Len(data.rows) = 3
    /\ IsNone(data.rows[1][Worldwide])
    /\ data.rows[2][Worldwide] = Some(1) /\ data.rows[3][Worldwide] = Some(1)
    /\ indexer = <<3, 2>>

RECURSIVE SumOver(_, _, _)
\* The sum of the values of column c over the rows S, none of them missing.
SumOver(t, c, S) ==
    IF S = {} THEN 0
    ELSE LET i == CHOOSE i \in S : TRUE
         IN  Val(t.rows[i][c]) + SumOver(t, c, S \ {i})

SumOfPresent(t, c) == SumOver(t, c, {i \in 1..Len(t.rows) : ~IsNone(t.rows[i][c])})

\* C7: totals returns one row; total_films is the number of records with a
\* title, whatever their monetary values, and each of the five monetary totals
\* is the sum of the values of its field that are not missing.
C7_Totals ==
    pc = "totals" =>
        /\ Len(result.rows) = 1
        /\ result.rows[1].total_films =
              Cardinality({i \in 1..Len(data.rows) : data.rows[i]["title"] # None})
        /\ result.rows[1].total_budget_crores = SumOfPresent(data, Budget)
        /\ result.rows[1].total_worldwide_crores = SumOfPresent(data, Worldwide)
        /\ result.rows[1].total_firstday_crores = SumOfPresent(data, FirstDay)
        /\ result.rows[1].total_overseas_crores = SumOfPresent(data, Overseas)
        /\ result.rows[1].total_india_crores = SumOfPresent(data, India)

\* C7 witness: three records, one without a title and one titled record without
\* monetary values: two films, and the sums of what is there.
C7_Witness ==
    /\ pc = "totals" /\ Len(data.rows) = 3
    /\ data.rows[1] = AggRow(None, Some(1), Some(1))
    /\ data.rows[2] = AggRow(Some("A"), None, None)
    /\ data.rows[3] = AggRow(Some("A"), Some(1), Some(1))
    /\ result.rows[1].total_films = 2
    /\ result.rows[1].total_budget_crores = 2
    /\ result.rows[1].total_overseas_crores = 2

\* C8: not_overseas returns, in source order, the title of exactly the records
\* whose overseas collection is missing or 0.
C8_NotOverseas ==
    pc = "not_overseas" =>
        /\ ShowsRows(result.rows, indexer, data, {"title"})
        /\ \A a, b \in 1..Len(indexer) : a < b => indexer[a] < indexer[b]
        /\ {indexer[k] : k \in 1..Len(indexer)} =
              {i \in 1..Len(data.rows) :
                  data.rows[i][Overseas] = None \/ data.rows[i][Overseas] = Some(0)}

\* C8 witness: of three records the one with an overseas collection of 1 is
\* left out and those with none and with 0 are returned in order.
C8_Witness ==
    /\ pc = "not_overseas" /\ Len(data.rows) = 3
    /\ data.rows[1][Overseas] = Some(1)
    /\ data.rows[2][Overseas] = None
    /\ data.rows[3][Overseas] = Some(0)
    /\ indexer = <<2, 3>>
    /\ Len(result.rows) = 2

----------------------------------------------------------------------------
(* runtime_extremes (movie_analytics.py 173-176) *)

RuntimeVals == {None, Some(1), Some(2), Some(3)}

\* Runtime columns in which no runtime occurs three times.
RuntimeLists ==
    {v \in SeqsUpTo(RuntimeVals, MaxRuntimeRows) :
        \A i, j, k \in 1..Len(v) :
            i < j /\ j < k /\ ~IsNone(v[i]) => ~(v[i] = v[j] /\ v[j] = v[k])}

RuntimeTables ==
    {[cols |-> AggCols, rows |-> [i \in 1..Len(v) |-> AggRow(Some("A"), None, v[i])]] :
        v \in RuntimeLists}

InitRuntime ==
    /\ pc = "ready"
    /\ data \in RuntimeTables
    /\ indexer = <<>> /\ result = <<>>
    /\ IdleSnake /\ IdleLoad /\ IdleReport

\* One call of runtime_extremes(data): the two sorts and their first five rows.
RuntimeExtremes ==
    /\ pc = "ready"
    /\ IF {"title", Runtime} \subseteq data.cols
       THEN \E down \in sort_values(data, Runtime, FALSE),
               up \in sort_values(data, Runtime, TRUE) :
                  /\ indexer' = [longest |-> HeadN(down, RuntimeTop),
                                 shortest |-> HeadN(up, RuntimeTop)]
                  /\ result' = [op |-> "runtime_extremes",
                                longest |-> Take(data, HeadN(down, RuntimeTop), {"title", Runtime}),
                                shortest |-> Take(data, HeadN(up, RuntimeTop), {"title", Runtime})]
                  /\ pc' = "runtime_extremes"
       ELSE /\ UNCHANGED <<indexer, result>>
            /\ pc' = "failed"
    /\ UNCHANGED <<data, snakeVars, loadVars, reportVars>>

NextRuntime == RuntimeExtremes

SpecRuntime == InitRuntime /\ [][NextRuntime]_vars

----------------------------------------------------------------------------
(* Claim C6 *)

\* What both readings of the claim share: each view shows the runtime and title
\* of min(5, number of records) distinct records, the longest view is sorted
\* descending with missing runtimes last, and neither view leaves out a record
\* that would have to stand before one it shows.
C6_Common ==
    /\ Len(result.longest) = MinOf(RuntimeTop, Len(data.rows))
    /\ Len(result.shortest) = MinOf(RuntimeTop, Len(data.rows))
    /\ ShowsRows(result.longest, indexer.longest, data, {"title", Runtime})
    /\ ShowsRows(result.shortest, indexer.shortest, data, {"title", Runtime})
    /\ NonIncreasingNullsLast(ColumnOf(result.longest, Runtime))
    /\ NothingBetterLeftOut(indexer.longest, data, Runtime, LAMBDA x, y : x > y)

\* C6 as stated: the five longest runtimes descending with missing runtimes
\* last, and the five shortest ascending with missing runtimes first.
C6_AsStated ==
    pc = "runtime_extremes" =>
        /\ C6_Common
        /\ NonDecreasingNullsFirst(ColumnOf(result.shortest, Runtime))

\* C6 amended: runtime_extremes returns the five records (all of them when
\* there are fewer) with the longest runtime, descending, and the five with the
\* shortest runtime, ascending; records without a runtime sort last in both
\* views.
C6_RuntimeExtremes ==
    pc = "runtime_extremes" =>
        /\ C6_Common
        /\ NonDecreasingNullsLast(ColumnOf(result.shortest, Runtime))
        /\ NothingBetterLeftOut(indexer.shortest, data, Runtime, LAMBDA x, y : x < y)

\* C6 witness: six records, two without a runtime: each view shows five
\* records, the four runtimes in its order and then the first of the two
\* records without one.
C6_Witness ==
    /\ pc = "runtime_extremes" /\ Len(data.rows) = 6
    /\ ColumnOf(data.rows, Runtime) = <<None, Some(2), Some(1), Some(3), None, Some(2)>>
    /\ ColumnOf(result.shortest, Runtime) = <<Some(1), Some(2), Some(2), Some(3), None>>
    /\ ColumnOf(result.longest, Runtime) = <<Some(3), Some(2), Some(2), Some(1), None>>
    /\ indexer.shortest[5] = 1
    /\ indexer.longest[5] = 1

----------------------------------------------------------------------------
(* The report command and build_report (movie_analytics.py 210-242, 358-377) *)

\* build_report's list of section names (lines 222-234).
SectionNames ==
    <<"totals", "top_worldwide", "top_india", "top_overseas", "top_firstday",
      "year_counts", "language_budget", "language_worldwide",
      "directors_top_films", "directors_top_worldwide", "actors_top_worldwide",
      "runtime_longest", "runtime_shortest">>

SectionSet == {SectionNames[k] : k \in 1..Len(SectionNames)}

\* The columns of the unified record set that the report's aggregations read.
ReportCols ==
    {"title", Budget, Worldwide, FirstDay, Overseas, India, Runtime,
     "year", "language", "director", "lead_actor_actress"}

\* The schemas a load may leave: every column, or all but one.
Schemas == {ReportCols} \cup {ReportCols \ {c} : c \in ReportCols}

\* actor_metrics' choice of the lead-actor column (line 160).
ActorKey(cols) ==
    IF "lead_actor_actress" \in cols THEN "lead_actor_actress" ELSE "lead_actor/actress"

\* Whether a call of the aggregation returns on a record set with these
\* columns; it raises (KeyError, ValueError) when a column it reads is missing.
Returns(agg, cols) ==
    CASE agg = "totals" -> TotalsCols \subseteq cols
      [] agg = "top_films_worldwide" -> TopFilmsOk(cols, "worldwide")
      [] agg = "top_films_india" -> TopFilmsOk(cols, "india")
      [] agg = "top_films_overseas" -> TopFilmsOk(cols, "overseas")
      [] agg = "top_films_firstday" -> TopFilmsOk(cols, "firstday")
      [] agg = "counts_by_year" -> {"year", "title"} \subseteq cols
      [] agg = "language_metrics" -> {"language", Budget, Worldwide, "director"} \subseteq cols
      [] agg = "director_metrics" -> {"director", "title"} \subseteq cols
      [] agg = "actor_metrics" -> ActorKey(cols) \in cols /\ Worldwide \in cols
      [] agg = "runtime_extremes" -> {"title", Runtime} \subseteq cols

\* The statements of the report command, lines 360-375: the aggregation each
\* calls and the file each exports (None: none).
ReportStmts ==
    <<[agg |-> Some("totals"), export |-> Some("totals")],
      [agg |-> Some("top_films_worldwide"), export |-> Some("top_worldwide")],
      [agg |-> Some("top_films_india"), export |-> Some("top_india")],
      [agg |-> Some("top_films_overseas"), export |-> Some("top_overseas")],
      [agg |-> Some("top_films_firstday"), export |-> Some("top_firstday")],
      [agg |-> Some("counts_by_year"), export |-> Some("year_counts")],
      [agg |-> Some("language_metrics"), export |-> None],
      [agg |-> None, export |-> Some("language_budget")],
      [agg |-> None, export |-> Some("language_worldwide")],
      [agg |-> Some("director_metrics"), export |-> None],
      [agg |-> None, export |-> Some("directors_top_films")],
      [agg |-> None, export |-> Some("directors_top_worldwide")],
      [agg |-> Some("actor_metrics"), export |-> Some("actors_top_worldwide")],
      [agg |-> Some("runtime_extremes"), export |-> None],
      [agg |-> None, export |-> Some("runtime_longest")],
      [agg |-> None, export |-> Some("runtime_shortest")]>>

BuildStmt == Len(ReportStmts) + 1
PrintStmt == Len(ReportStmts) + 2

\* The commands other than report that, with --export, write a file build_report
\* reads: the aggregation each calls and the files it exports.
SingleCommands ==
    {[agg |-> "totals", exports |-> {"totals"}],
     [agg |-> "top_films_worldwide", exports |-> {"top_worldwide"}],
     [agg |-> "top_films_india", exports |-> {"top_india"}],
     [agg |-> "top_films_overseas", exports |-> {"top_overseas"}],
     [agg |-> "top_films_firstday", exports |-> {"top_firstday"}],
     [agg |-> "counts_by_year", exports |-> {"year_counts"}],
     [agg |-> "actor_metrics", exports |-> {"actors_top_worldwide"}],
     [agg |-> "runtime_extremes", exports |-> {"runtime_longest", "runtime_shortest"}]}

\* export_table(df, outdir, name) by invocation r: <name>.md is (over)written.
ExportTable(fs, names, r) == [n \in SectionSet |-> IF n \in names THEN r ELSE fs[n]]

\* A variant of the existence test that takes every file to be there.
ExistsAlways(fs, n) == TRUE

\* os.path.exists(md) (line 237).
Exists(fs, n) == fs[n] # 0

\* build_report(outdir) by invocation r: a section for each name whose file
\* exists, in the order of the list, holding what the file holds; REPORT.md is
\* written when there is at least one section (line 240).
build_report(fs, r, old) ==
    LET names == SelectSeq(SectionNames, LAMBDA n : Exists(fs, n))
        sections == [k \in 1..Len(names) |-> <<names[k], fs[names[k]]>>]
    IN  IF sections # <<>> THEN [by |-> r, sections |-> sections] ELSE old

InitReport ==
    /\ pc = "idle"
    /\ schema = {}
    /\ files = [n \in SectionSet |-> 0]
    /\ report_md = [by |-> 0, sections |-> <<>>]
    /\ run = 0 /\ stmt = 0 /\ ran = <<>>
    /\ IdleSnake /\ IdleLoad /\ IdleData /\ IdleAgg

\* main is started with the report command on a loaded record set.
StartReport ==
    /\ pc = "idle" /\ run < MaxRuns
    /\ \E sc \in Schemas : schema' = sc
    /\ run' = run + 1
    /\ stmt' = 1
    /\ ran' = <<>>
    /\ pc' = "report"
    /\ UNCHANGED <<files, report_md>>

\* A variant of the failure of a statement: the error is swallowed and the
\* command goes on with the next statement.
RaiseAndGoOn == /\ pc' = "report" /\ stmt' = stmt + 1

\* The aggregation of a statement raises: the exception leaves main.
Raise == /\ pc' = "failed" /\ stmt' = stmt

\* One statement of lines 360-375 whose aggregation, if it has one, returns.
ReportStmtReturns ==
    /\ pc = "report" /\ stmt \in 1..Len(ReportStmts)
    /\ LET st == ReportStmts[stmt]
       IN  /\ IF IsNone(st.agg) THEN TRUE ELSE Returns(Val(st.agg), schema)
           /\ ran' = IF IsNone(st.agg) THEN ran ELSE Append(ran, Val(st.agg))
           /\ files' = IF IsNone(st.export) THEN files
                       ELSE ExportTable(files, {Val(st.export)}, run)
    /\ stmt' = stmt + 1
    /\ UNCHANGED <<pc, schema, report_md, run>>

\* One statement of lines 360-375 whose aggregation raises.
ReportStmtRaises ==
    /\ pc = "report" /\ stmt \in 1..Len(ReportStmts)
    /\ LET st == ReportStmts[stmt]
       IN  /\ IF IsNone(st.agg) THEN FALSE ELSE ~Returns(Val(st.agg), schema)
           /\ ran' = Append(ran, Val(st.agg))
    /\ Raise
    /\ UNCHANGED <<schema, files, report_md, run>>

\* Line 376: build_report(outdir).
ReportBuild ==
    /\ pc = "report" /\ stmt = BuildStmt
    /\ report_md' = build_report(files, run, report_md)
    /\ stmt' = stmt + 1
    /\ UNCHANGED <<pc, schema, files, run, ran>>

\* Line 377: the closing print; main returns.
ReportPrint ==
    /\ pc = "report" /\ stmt = PrintStmt
    /\ pc' = "done"
    /\ UNCHANGED <<schema, files, report_md, run, stmt, ran>>

\* main with another command and --export: the aggregation, then its files.
SingleCommand ==
    /\ pc = "idle" /\ run < MaxRuns
    /\ \E cmd \in SingleCommands, sc \in Schemas :
          /\ schema' = sc
          /\ ran' = <<cmd.agg>>
          /\ IF Returns(cmd.agg, sc)
             THEN /\ files' = ExportTable(files, cmd.exports, run + 1)
                  /\ pc' = "exported"
             ELSE /\ files' = files
                  /\ pc' = "command_failed"
    /\ run' = run + 1
    /\ UNCHANGED <<report_md, stmt>>

\* build_report(outdir) called on its own on the output directory.
CallBuildReport ==
    /\ pc = "idle" /\ run < MaxRuns
    /\ run' = run + 1
    /\ report_md' = build_report(files, run + 1, report_md)
    /\ ran' = <<>>
    /\ pc' = "built"
    /\ UNCHANGED <<schema, files, stmt>>

\* The process ends; the output directory stays.
Exit ==
    /\ pc \in {"done", "failed", "exported", "command_failed", "built"}
    /\ pc' = "idle"
    /\ stmt' = 0
    /\ UNCHANGED <<schema, files, report_md, run, ran>>

otherVars == <<snakeVars, loadVars, data, aggVars>>

NextReport ==
    \/ StartReport /\ UNCHANGED otherVars
    \/ ReportStmtReturns /\ UNCHANGED otherVars
    \/ ReportStmtRaises /\ UNCHANGED otherVars
    \/ ReportBuild /\ UNCHANGED otherVars
    \/ ReportPrint /\ UNCHANGED otherVars
    \/ SingleCommand /\ UNCHANGED otherVars
    \/ CallBuildReport /\ UNCHANGED otherVars
    \/ Exit /\ UNCHANGED otherVars

SpecReport == InitReport /\ [][NextReport]_vars

----------------------------------------------------------------------------
(* Claims C9, C10 *)

\* The place of a section name in build_report's list.
PlaceOf(n) == CHOOSE k \in 1..Len(SectionNames) : SectionNames[k] = n

\* build_report has just returned: in the report command, or called on its own.
JustBuilt == (pc = "report" /\ stmt = PrintStmt) \/ pc = "built"

\* REPORT.md holds one section for each .md file that exists, in the order of
\* the list, each with what its file holds.
SectionsAreTheFiles ==
    /\ \A k \in 1..Len(report_md.sections) :
          /\ report_md.sections[k][1] \in SectionSet
          /\ report_md.sections[k][2] = files[report_md.sections[k][1]]
    /\ \A a, b \in 1..Len(report_md.sections) :
          a < b => PlaceOf(report_md.sections[a][1]) < PlaceOf(report_md.sections[b][1])
    /\ {report_md.sections[k][1] : k \in 1..Len(report_md.sections)} =
          {n \in SectionSet : files[n] # 0}

\* C9: right after build_report, REPORT.md (written by this invocation when any
\* export file exists) holds one section for exactly the section names whose
\* .md file exists, in the order of the fixed list; and when a report command
\* has run to completion, all 13 exports were written by it before
\* build_report ran and REPORT.md holds all 13 sections.
C9_ReportSections ==
    /\ JustBuilt =>
          IF \E n \in SectionSet : files[n] # 0
          THEN report_md.by = run /\ SectionsAreTheFiles
          ELSE report_md.by = 0
    /\ pc = "done" =>
          /\ report_md.by = run
          /\ report_md.sections = [k \in 1..Len(SectionNames) |-> <<SectionNames[k], run>>]
          /\ Len(report_md.sections) = 13
          /\ \A n \in SectionSet : files[n] = run

\* C9 witness: a report command has run to completion as the second invocation
\* and REPORT.md holds the 13 sections it exported.
C9_Witness ==
    /\ pc = "done" /\ run = 2
    /\ report_md.by = 2
    /\ Len(report_md.sections) = 13
    /\ report_md.sections[1] = <<"totals", 2>>
    /\ report_md.sections[13] = <<"runtime_shortest", 2>>

\* C9, the case of missing files: build_report finds the first ten export files
\* of a report command that failed at actor_metrics, and writes ten sections.
C9_PartialCase ==
    /\ pc = "built" /\ run = 2
    /\ files["actors_top_worldwide"] = 0 /\ files["directors_top_worldwide"] = 1
    /\ report_md.by = 2
    /\ Len(report_md.sections) = 10

\* C10: a report command goes on only while every aggregation it has called
\* returned; when one raises, the run stops there: the aggregations called are
\* those of the statements up to the failing one, the exports of the statements
\* before it are on disk as this run wrote them, no later export and no
\* REPORT.md is written by this run.
C10_FailureStopsRun ==
    /\ pc \in {"report", "done"} =>
          \A k \in 1..Len(ran) : Returns(ran[k], schema)
    /\ pc = "failed" =>
          /\ stmt \in 1..Len(ReportStmts)
          /\ ran = Concat([j \in 1..stmt |-> ReportStmts[j].agg])
          /\ ~Returns(ran[Len(ran)], schema)
          /\ \A j \in 1..Len(ReportStmts) :
                ~IsNone(ReportStmts[j].export) =>
                    IF j < stmt
                    THEN files[Val(ReportStmts[j].export)] = run
                    ELSE files[Val(ReportStmts[j].export)] # run
          /\ report_md.by # run

\* C10 witness: after a complete report, a second report command on a schema
\* without the lead-actor column fails at actor_metrics: the ten exports before
\* it are this run's, the three after it and REPORT.md are still the first
\* run's.
C10_Witness ==
    /\ pc = "failed" /\ run = 2
    /\ schema = ReportCols \ {"lead_actor_actress"}
    /\ ran[Len(ran)] = "actor_metrics"
    /\ files["directors_top_worldwide"] = 2
    /\ files["actors_top_worldwide"] = 1
    /\ files["runtime_shortest"] = 1
    /\ report_md.by = 1

====
